---- MODULE Spec2Model ----
(***************************************************************************)
(* Model of drawparser.py: extraction of shape records from a draw.io      *)
(* document.                                                               *)
(*                                                                         *)
(* Data representation                                                     *)
(*   element     [tag |-> string, attrib |-> function from attribute names *)
(*               to strings, children |-> sequence of elements]            *)
(*   optional    None is the empty sequence, a present value v is <<v>>;   *)
(*               so the absent marker differs from every string, the       *)
(*               empty string included                                     *)
(*   dict        function from a set of keys to optional strings           *)
(*   call result [ok, val, err]: a returned value or a raised exception    *)
(***************************************************************************)
EXTENDS Integers, Sequences, FiniteSets, TLC

VARIABLES
    \* parse_diagram
    doc,            \* the tree ET.parse built, its root element
    child_shapes,   \* the list root.findall(...) returned
    idx,            \* number of shapes the for loop has consumed
    data,           \* the local list of DrawioElement
    pc,             \* "start", "loop", "returned", "raised" ("idle": not called)
    err,            \* the exception that left parse_diagram, "" when none
    result,         \* the list handed to the caller, <<>> before the return
    \* one direct call of a parser
    pElem, pCall, pOut,
    \* one call of merge_dicts_prefer_not_none, and the three-level fold
    mA, mB, mC, mCall, mOut, mLeft, mRight,
    \* one call of xml_attributes_to_dict
    xElem, xAttrs, xCall, xOut

walkVars == <<doc, child_shapes, idx, data, pc, err, result>>
parseVars == <<pElem, pCall, pOut>>
mergeVars == <<mA, mB, mC, mCall, mOut, mLeft, mRight>>
extractVars == <<xElem, xAttrs, xCall, xOut>>
vars == <<walkVars, parseVars, mergeVars, extractVars>>

----------------------------------------------------------------------------
(* Bounds *)

MaxShapes == 3      \* most direct children of the root container
MaxNodes == 4       \* most nodes of an element handed to a parser directly
MaxReq == 2         \* most attribute names requested from the extractor

----------------------------------------------------------------------------
(* Values *)

None == <<>>
Str(s) == <<s>>

EmptyDict == [k \in {} |-> None]

Range(s) == {s[n] : n \in DOMAIN s}

PartialFns(K, V) == UNION {[S -> V] : S \in SUBSET K}

Elem(t, a, c) == [tag |-> t, attrib |-> a, children |-> c]

NoAttrib == [k \in {} |-> ""]

Ok(v) == [ok |-> TRUE, val |-> v, err |-> ""]
Raise(e) == [ok |-> FALSE, val |-> None, err |-> e]

----------------------------------------------------------------------------
(* Useful helpers *)

\* Mutant: a missing attribute is left out of the mapping.
xml_attributes_to_dict_present_only(element, attributes) ==
    [attrib \in Range(attributes) \cap DOMAIN element.attrib
        |-> Str(element.attrib[attrib])]

xml_attributes_to_dict(element, attributes) ==
    [attrib \in Range(attributes) |->
        IF attrib \in DOMAIN element.attrib
        THEN Str(element.attrib[attrib])
        ELSE None]

RECURSIVE iter(_, _)
RECURSIVE iter_children(_, _)

\* Element.iter(tag): the element itself and its descendants with this tag,
\* in document order.
iter(element, tag) ==
    (IF element.tag = tag THEN <<element>> ELSE <<>>)
        \o iter_children(element.children, tag)

iter_children(children, tag) ==
    IF children = <<>>
    THEN <<>>
    ELSE iter(Head(children), tag) \o iter_children(Tail(children), tag)

\* Mutant: only the direct children are searched.
child_or_none_direct(element, child_tag) ==
    LET children_element ==
            SelectSeq(element.children, LAMBDA c : c.tag = child_tag)
    IN  IF Len(children_element) > 0
        THEN <<children_element[1]>>
        ELSE None

child_or_none(element, child_tag) ==
    LET children_element == iter(element, child_tag)
    IN  IF Len(children_element) > 0
        THEN <<children_element[1]>>
        ELSE None

\* dict.get(key) with the default None
get(d, key) == IF key \in DOMAIN d THEN d[key] ELSE None

\* Mutant: the plain dict union b | a, a's value wins even when it is None.
merge_dicts_update(a, b) ==
    [key \in DOMAIN a \cup DOMAIN b |->
        IF key \in DOMAIN a THEN a[key] ELSE b[key]]

\* Mutant: b is preferred over a.
merge_dicts_prefer_b(a, b) ==
    [key \in DOMAIN a \cup DOMAIN b |->
        IF key \in DOMAIN b
        THEN (IF b[key] = None THEN get(a, key) ELSE b[key])
        ELSE a[key]]

merge_dicts_prefer_not_none(a, b) ==
    [key \in DOMAIN a \cup DOMAIN b |->
        IF key \in DOMAIN a
        THEN (IF a[key] = None THEN get(b, key) ELSE a[key])
        ELSE b[key]]

----------------------------------------------------------------------------
(* Object parsers *)

\* Mutant: the tag is not checked.
parse_mxgeo_unchecked(element) ==
    Ok(xml_attributes_to_dict(element, <<"x", "y", "width", "height">>))

parse_mxgeo(element) ==
    IF element.tag # "mxGeometry"
    THEN Raise("ValueError")
    ELSE LET attribs_to_fetch == <<"x", "y", "width", "height">>
             mx_geo_attribs == xml_attributes_to_dict(element, attribs_to_fetch)
         IN  Ok(mx_geo_attribs)

parse_mxcell(element) ==
    IF element.tag # "mxCell"
    THEN Raise("ValueError")
    ELSE LET attribs_to_fetch == <<"value", "style", "id", "parent", "vertex">>
             mxcell_attribs == xml_attributes_to_dict(element, attribs_to_fetch)
             mxgeo == child_or_none(element, "mxGeometry")
             parsed == parse_mxgeo(mxgeo[1])
         IN  IF mxgeo # None
             THEN IF parsed.ok
                  THEN Ok(merge_dicts_prefer_not_none(mxcell_attribs, parsed.val))
                  ELSE parsed
             ELSE Ok(merge_dicts_prefer_not_none(mxcell_attribs, EmptyDict))

\* Mutant: the nested cell's attributes are merged as primary.
parse_object_cell_first(element) ==
    IF element.tag # "object"
    THEN Raise("ValueError")
    ELSE LET object_attribs ==
                 xml_attributes_to_dict(element, <<"label", "id", "tags">>)
             mx_cell == child_or_none(element, "mxCell")
             parsed == parse_mxcell(mx_cell[1])
         IN  IF mx_cell # None
             THEN IF parsed.ok
                  THEN Ok(merge_dicts_prefer_not_none(parsed.val, object_attribs))
                  ELSE parsed
             ELSE Ok(merge_dicts_prefer_not_none(EmptyDict, object_attribs))

parse_object(element) ==
    IF element.tag # "object"
    THEN Raise("ValueError")
    ELSE LET attribs_to_fetch == <<"label", "id", "tags">>
             object_attribs == xml_attributes_to_dict(element, attribs_to_fetch)
             mx_cell == child_or_none(element, "mxCell")
             parsed == parse_mxcell(mx_cell[1])
         IN  IF mx_cell # None
             THEN IF parsed.ok
                  THEN Ok(merge_dicts_prefer_not_none(object_attribs, parsed.val))
                  ELSE parsed
             ELSE Ok(merge_dicts_prefer_not_none(object_attribs, EmptyDict))

parse_userobject(element) ==
    IF element.tag # "UserObject"
    THEN Raise("ValueError")
    ELSE LET attribs_to_fetch == <<"label", "tags", "id">>
             mx_user_object == xml_attributes_to_dict(element, attribs_to_fetch)
             mx_cell == child_or_none(element, "mxCell")
             parsed == parse_mxcell(mx_cell[1])
         IN  IF mx_cell # None
             THEN IF parsed.ok
                  THEN Ok(merge_dicts_prefer_not_none(mx_user_object, parsed.val))
                  ELSE parsed
             ELSE Ok(merge_dicts_prefer_not_none(mx_user_object, EmptyDict))

----------------------------------------------------------------------------
(* Representation of a drawio element *)

Fields ==
    {"id", "value", "label", "tags", "style", "parent", "vertex",
     "x", "y", "width", "height"}

\* DrawioElement(**kwargs): id has no default, every other field defaults to
\* None; a keyword that is no field is a TypeError.  The field types are
\* annotations only, nothing checks them.
DrawioElement(kwargs) ==
    IF "id" \notin DOMAIN kwargs \/ ~(DOMAIN kwargs \subseteq Fields)
    THEN Raise("TypeError")
    ELSE Ok([f \in Fields |-> get(kwargs, f)])

----------------------------------------------------------------------------
(* parse_diagram *)

RECURSIVE find_tagged(_, _)
\* one "/tag" step of the path: the children with this tag of each element
find_tagged(elements, tag) ==
    IF elements = <<>>
    THEN <<>>
    ELSE SelectSeq(Head(elements).children, LAMBDA c : c.tag = tag)
            \o find_tagged(Tail(elements), tag)

RECURSIVE find_star(_)
\* the "/*" step of the path: every child of each element
find_star(elements) ==
    IF elements = <<>>
    THEN <<>>
    ELSE Head(elements).children \o find_star(Tail(elements))

\* Mutant: every diagram section is searched, not only the first.
findall_every_diagram(root) ==
    find_star(find_tagged(find_tagged(find_tagged(<<root>>, "diagram"),
                                      "mxGraphModel"), "root"))

\* root.findall("./diagram[1]/mxGraphModel/root/*")
findall(root) ==
    LET diagrams == find_tagged(<<root>>, "diagram")
        diagram1 == IF Len(diagrams) > 0 THEN <<diagrams[1]>> ELSE <<>>
    IN  find_star(find_tagged(find_tagged(diagram1, "mxGraphModel"), "root"))

parser_tags == {"object", "mxCell", "UserObject"}

\* parser[shape.tag](shape), for a tag of parser_tags
parser(shape) ==
    CASE shape.tag = "object" -> parse_object(shape)
      [] shape.tag = "mxCell" -> parse_mxcell(shape)
      [] shape.tag = "UserObject" -> parse_userobject(shape)

\* tree = ET.parse(diagram) has built doc; find the shapes, start the list
Load ==
    /\ pc = "start"
    /\ child_shapes' = findall(doc)
    /\ data' = <<>>
    /\ idx' = 0
    /\ pc' = "loop"
    /\ UNCHANGED <<doc, err, result, parseVars, mergeVars, extractVars>>

\* Mutant: the record is put in front of the list.
ParseShape_prepend ==
    /\ pc = "loop"
    /\ idx < Len(child_shapes)
    /\ child_shapes[idx + 1].tag \in parser_tags
    /\ LET parsed == parser(child_shapes[idx + 1])
           made == DrawioElement(parsed.val)
       IN  /\ parsed.ok /\ made.ok
           /\ data' = <<made.val>> \o data
           /\ idx' = idx + 1
           /\ UNCHANGED <<pc, err>>
    /\ UNCHANGED <<doc, child_shapes, result, parseVars, mergeVars, extractVars>>

\* one pass of the loop body over a shape whose tag has a parser
ParseShape ==
    /\ pc = "loop"
    /\ idx < Len(child_shapes)
    /\ child_shapes[idx + 1].tag \in parser_tags
    /\ LET shape == child_shapes[idx + 1]
           parsed == parser(shape)
           made == DrawioElement(parsed.val)
       IN  IF ~parsed.ok
           THEN /\ pc' = "raised"
                /\ err' = parsed.err
                /\ UNCHANGED <<data, idx>>
           ELSE IF ~made.ok
           THEN /\ pc' = "raised"
                /\ err' = made.err
                /\ UNCHANGED <<data, idx>>
           ELSE /\ data' = Append(data, made.val)
                /\ idx' = idx + 1
                /\ UNCHANGED <<pc, err>>
    /\ UNCHANGED <<doc, child_shapes, result, parseVars, mergeVars, extractVars>>

\* Mutant: a shape without a parser is skipped.
UnhandledKind_skip ==
    /\ pc = "loop"
    /\ idx < Len(child_shapes)
    /\ child_shapes[idx + 1].tag \notin parser_tags
    /\ idx' = idx + 1
    /\ UNCHANGED <<pc, err, data>>
    /\ UNCHANGED <<doc, child_shapes, result, parseVars, mergeVars, extractVars>>

\* the loop body over a shape whose tag is no key of the parser dict
UnhandledKind ==
    /\ pc = "loop"
    /\ idx < Len(child_shapes)
    /\ child_shapes[idx + 1].tag \notin parser_tags
    /\ pc' = "raised"
    /\ err' = "KeyError"
    /\ UNCHANGED <<data, idx>>
    /\ UNCHANGED <<doc, child_shapes, result, parseVars, mergeVars, extractVars>>

\* return data
Return ==
    /\ pc = "loop"
    /\ idx = Len(child_shapes)
    /\ result' = data
    /\ pc' = "returned"
    /\ UNCHANGED <<doc, child_shapes, idx, data, err, parseVars, mergeVars, extractVars>>

----------------------------------------------------------------------------
(* Documents parse_diagram is run on *)

Mxfile(kids) == Elem("mxfile", NoAttrib, kids)
Diagram(kids) == Elem("diagram", NoAttrib, kids)
GraphModel(kids) == Elem("mxGraphModel", NoAttrib, kids)
RootContainer(kids) == Elem("root", NoAttrib, kids)

DocOf(shapes) == Mxfile(<<Diagram(<<GraphModel(<<RootContainer(shapes)>>)>>)>>)

\* a small pool of shapes of every kind
ShapeBox ==
    Elem("object", [id |-> "1", label |-> "Box"],
         <<Elem("mxCell", [style |-> "rounded=1"],
                <<Elem("mxGeometry",
                       [x |-> "10", y |-> "20", width |-> "80", height |-> "40"],
                       <<>>)>>)>>)
ShapeCell ==
    Elem("mxCell", [id |-> "2", value |-> "v", parent |-> "1"],
         <<Elem("mxGeometry", [x |-> "5"], <<>>)>>)
ShapeLayer == Elem("mxCell", [id |-> "0"], <<>>)
ShapeCellNoId == Elem("mxCell", [value |-> "w"], <<>>)
ShapeUser ==
    Elem("UserObject", [id |-> "4", label |-> "", tags |-> "t"],
         <<Elem("mxCell", [id |-> "9", vertex |-> "1"], <<>>)>>)
ShapeObjectNoId == Elem("object", [label |-> "L"], <<>>)
ShapePoint == Elem("mxPoint", [id |-> "5"], <<>>)

ShapePool ==
    {ShapeBox, ShapeCell, ShapeLayer, ShapeCellNoId, ShapeUser,
     ShapeObjectNoId, ShapePoint}

SeqsUpTo(S, n) == UNION {[1..k -> S] : k \in 0..n}

\* an object holding one cell holding one geometry, the three levels carrying
\* any attributes, requested at that level or not, empty values included
LevelAttribs == PartialFns({"id", "label", "x"}, {"", "1"})

NestedObjects ==
    {Elem("object", a1,
          <<Elem("mxCell", a2, <<Elem("mxGeometry", a3, <<>>)>>)>>) :
        a1 \in LevelAttribs, a2 \in LevelAttribs, a3 \in LevelAttribs}

\* documents that stray from the path mxfile/diagram/mxGraphModel/root
OddDocs ==
    LET S == <<ShapeBox, ShapeCell>>
        T == <<ShapeUser>>
        full(s) == Diagram(<<GraphModel(<<RootContainer(s)>>)>>)
    IN  { Mxfile(<<>>),
          Mxfile(<<Diagram(<<>>)>>),
          Mxfile(<<Diagram(<<GraphModel(<<>>)>>)>>),
          Mxfile(<<Diagram(<<GraphModel(S)>>)>>),
          Mxfile(<<Diagram(<<RootContainer(S)>>)>>),
          Mxfile(<<RootContainer(S)>>),
          Mxfile(<<GraphModel(<<RootContainer(S)>>)>>),
          Mxfile(<<Diagram(<<>>), full(S)>>),
          Mxfile(<<Diagram(<<GraphModel(<<>>)>>), full(S)>>),
          Mxfile(<<Elem("other", NoAttrib, <<>>), full(S)>>),
          Mxfile(<<full(S), full(T)>>),
          Mxfile(<<Diagram(<<GraphModel(<<RootContainer(S), RootContainer(T)>>)>>)>>),
          Mxfile(<<Diagram(<<GraphModel(<<RootContainer(S)>>),
                             GraphModel(<<RootContainer(T)>>)>>)>>),
          Diagram(<<GraphModel(<<RootContainer(S)>>)>>) }

Docs ==
    {DocOf(s) : s \in SeqsUpTo(ShapePool, MaxShapes)}
        \cup {DocOf(<<o>>) : o \in NestedObjects}
        \cup OddDocs

NoDoc == Elem("", NoAttrib, <<>>)

WalkIdle ==
    /\ doc = NoDoc /\ child_shapes = <<>> /\ idx = 0 /\ data = <<>>
    /\ pc = "idle" /\ err = "" /\ result = <<>>
ParseIdle == pElem = NoDoc /\ pCall = "" /\ pOut = Raise("")
MergeIdle ==
    /\ mA = EmptyDict /\ mB = EmptyDict /\ mC = EmptyDict /\ mCall = ""
    /\ mOut = EmptyDict /\ mLeft = EmptyDict /\ mRight = EmptyDict
ExtractIdle == xElem = NoDoc /\ xAttrs = <<>> /\ xCall = "" /\ xOut = EmptyDict

Init ==
    /\ doc \in Docs
    /\ child_shapes = <<>> /\ idx = 0 /\ data = <<>>
    /\ pc = "start" /\ err = "" /\ result = <<>>
    /\ ParseIdle /\ MergeIdle /\ ExtractIdle

Next == Load \/ ParseShape \/ UnhandledKind \/ Return

Spec == Init /\ [][Next]_vars

----------------------------------------------------------------------------
(* Direct calls of the four parsers *)

TreeTags == {"object", "mxCell", "UserObject", "mxGeometry", "mxPoint"}

\* the node that is number n of its tree in document order carries every
\* attribute with the value "n", so a record tells which node supplied a field
Marked(n) == [a \in Fields |-> ToString(n)]

RECURSIVE Trees(_, _)
RECURSIVE Forests(_, _)

\* the elements of exactly n nodes, numbered from first
Trees(n, first) ==
    {Elem(t, Marked(first), kids) :
        t \in TreeTags, kids \in Forests(n - 1, first + 1)}

\* the sequences of elements of k nodes together
Forests(k, first) ==
    IF k = 0
    THEN {<<>>}
    ELSE UNION {{<<t>> \o f : t \in Trees(j, first),
                              f \in Forests(k - j, first + j)} : j \in 1..k}

ParseElems == UNION {Trees(n, 1) : n \in 1..MaxNodes}

CallObject ==
    /\ pCall = "ready"
    /\ pOut' = parse_object(pElem)
    /\ pCall' = "parse_object"
    /\ UNCHANGED <<pElem, walkVars, mergeVars, extractVars>>

CallMxcell ==
    /\ pCall = "ready"
    /\ pOut' = parse_mxcell(pElem)
    /\ pCall' = "parse_mxcell"
    /\ UNCHANGED <<pElem, walkVars, mergeVars, extractVars>>

CallMxgeo ==
    /\ pCall = "ready"
    /\ pOut' = parse_mxgeo(pElem)
    /\ pCall' = "parse_mxgeo"
    /\ UNCHANGED <<pElem, walkVars, mergeVars, extractVars>>

CallUserobject ==
    /\ pCall = "ready"
    /\ pOut' = parse_userobject(pElem)
    /\ pCall' = "parse_userobject"
    /\ UNCHANGED <<pElem, walkVars, mergeVars, extractVars>>

InitParse ==
    /\ pElem \in ParseElems /\ pCall = "ready" /\ pOut = Raise("")
    /\ WalkIdle /\ MergeIdle /\ ExtractIdle

NextParse == CallObject \/ CallMxcell \/ CallMxgeo \/ CallUserobject

SpecParse == InitParse /\ [][NextParse]_vars

----------------------------------------------------------------------------
(* Calls of the merger *)

MergeDicts == PartialFns({"id", "x"}, {None, Str(""), Str("1"), Str("2")})

\* merge_dicts_prefer_not_none(mA, mB)
Merge ==
    /\ mCall = "ready"
    /\ mOut' = merge_dicts_prefer_not_none(mA, mB)
    /\ mCall' = "merge"
    /\ UNCHANGED <<mA, mB, mC, mLeft, mRight, walkVars, parseVars, extractVars>>

\* the two ways of folding three levels
Fold ==
    /\ mCall = "ready"
    /\ mLeft' = merge_dicts_prefer_not_none(
                    merge_dicts_prefer_not_none(mA, mB), mC)
    /\ mRight' = merge_dicts_prefer_not_none(
                    mA, merge_dicts_prefer_not_none(mB, mC))
    /\ mCall' = "fold"
    /\ UNCHANGED <<mA, mB, mC, mOut, walkVars, parseVars, extractVars>>

InitMerge ==
    /\ mA \in MergeDicts /\ mB \in MergeDicts /\ mC \in MergeDicts
    /\ mCall = "ready"
    /\ mOut = EmptyDict /\ mLeft = EmptyDict /\ mRight = EmptyDict
    /\ WalkIdle /\ ParseIdle /\ ExtractIdle

NextMerge == Merge \/ Fold

SpecMerge == InitMerge /\ [][NextMerge]_vars

----------------------------------------------------------------------------
(* Calls of the extractor *)

ExtractAttribs == PartialFns({"id", "label", "x"}, {"", "1"})

ExtractElems ==
    {Elem("object", a, <<>>) : a \in ExtractAttribs}
        \cup {Elem("object", a, <<Elem("mxCell", c, <<>>)>>) :
                a \in ExtractAttribs, c \in ExtractAttribs}

ExtractNames == {"id", "label", "x", "style"}

Extract ==
    /\ xCall = "ready"
    /\ xOut' = xml_attributes_to_dict(xElem, xAttrs)
    /\ xCall' = "done"
    /\ UNCHANGED <<xElem, xAttrs, walkVars, parseVars, mergeVars>>

InitExtract ==
    /\ xElem \in ExtractElems
    /\ xAttrs \in SeqsUpTo(ExtractNames, MaxReq)
    /\ xCall = "ready" /\ xOut = EmptyDict
    /\ WalkIdle /\ ParseIdle /\ MergeIdle

NextExtract == Extract

SpecExtract == InitExtract /\ [][NextExtract]_vars

----------------------------------------------------------------------------
(* Properties of the merger *)

\* C1: merge_dicts_prefer_not_none(A, B) is a mapping over keys(A) union
\* keys(B); a key of A with a value that is not None keeps A's value, a key of
\* A whose value is None takes B's value (None when B has no such key or holds
\* None), a key of B alone takes B's value.
C1_MergePerKey ==
    mCall = "merge" =>
        /\ DOMAIN mOut = DOMAIN mA \cup DOMAIN mB
        /\ \A k \in DOMAIN mOut :
            /\ (k \in DOMAIN mA /\ mA[k] # None) => mOut[k] = mA[k]
            /\ (k \in DOMAIN mA /\ mA[k] = None) =>
                    mOut[k] = (IF k \in DOMAIN mB THEN mB[k] ELSE None)
            /\ k \notin DOMAIN mA => mOut[k] = mB[k]

C1_Witness ==
    /\ mCall = "merge"
    /\ DOMAIN mA = {"id"} /\ mA["id"] = None
    /\ DOMAIN mB = {"id", "x"} /\ mB["id"] = Str("1") /\ mB["x"] = Str("")
    /\ mOut = [id |-> Str("1"), x |-> Str("")]

FirstNonAbsent(levels, k) ==
    LET S == {n \in DOMAIN levels :
                k \in DOMAIN levels[n] /\ levels[n][k] # None}
    IN  IF S = {}
        THEN None
        ELSE levels[CHOOSE n \in S : \A m \in S : n <= m][k]

\* C6: folding object (mA), cell (mB) and geometry (mC) gives the same mapping
\* whichever pair is merged first, and each key holds the first value that is
\* not None among the three in that order, None when there is none.
C6_FoldAssociative ==
    mCall = "fold" =>
        /\ mLeft = mRight
        /\ DOMAIN mRight = DOMAIN mA \cup DOMAIN mB \cup DOMAIN mC
        /\ \A k \in DOMAIN mRight :
                mRight[k] = FirstNonAbsent(<<mA, mB, mC>>, k)

C6_Witness ==
    /\ mCall = "fold"
    /\ "id" \in DOMAIN mA /\ mA["id"] = None
    /\ "id" \in DOMAIN mB /\ mB["id"] = None
    /\ "id" \in DOMAIN mC /\ mC["id"] = Str("2")
    /\ "x" \in DOMAIN mA /\ mA["x"] = Str("1")
    /\ "x" \in DOMAIN mB /\ mB["x"] = Str("2")
    /\ mLeft["id"] = Str("2") /\ mRight["id"] = Str("2")
    /\ mLeft["x"] = Str("1") /\ mRight["x"] = Str("1")

----------------------------------------------------------------------------
(* Properties of the extractor *)

\* C8: xml_attributes_to_dict returns a mapping over exactly the requested
\* names; a name the element carries maps to the element's own value, a name
\* it does not carry maps to None, whatever its children carry.
C8_ExtractExact ==
    xCall = "done" =>
        /\ DOMAIN xOut = Range(xAttrs)
        /\ \A k \in DOMAIN xOut :
            /\ k \in DOMAIN xElem.attrib => xOut[k] = Str(xElem.attrib[k])
            /\ k \notin DOMAIN xElem.attrib => xOut[k] = None
            /\ xOut[k] = None <=> k \notin DOMAIN xElem.attrib

C8_Witness ==
    /\ xCall = "done"
    /\ xAttrs = <<"x", "label">>
    /\ DOMAIN xElem.attrib = {"id", "label"} /\ xElem.attrib["label"] = ""
    /\ Len(xElem.children) = 1
    /\ "x" \in DOMAIN xElem.children[1].attrib
    /\ xOut = [x |-> None, label |-> Str("")]

----------------------------------------------------------------------------
(* Properties of the parsers *)

ExpectedTag ==
    [parse_object |-> "object", parse_mxcell |-> "mxCell",
     parse_mxgeo |-> "mxGeometry", parse_userobject |-> "UserObject"]

\* C5: a parser called on an element of another tag than its own raises the
\* tag-mismatch error (ValueError) and returns nothing; called on an element
\* of its own tag it returns a mapping, whatever the element holds.
C5_TagCheck ==
    pCall \in DOMAIN ExpectedTag =>
        IF pElem.tag = ExpectedTag[pCall]
        THEN pOut.ok /\ pOut.err = ""
        ELSE ~pOut.ok /\ pOut.err = "ValueError" /\ pOut.val = None

C5_Witness ==
    /\ pCall = "parse_mxcell"
    /\ pElem.tag = "object"
    /\ Len(pElem.children) = 1 /\ pElem.children[1].tag = "mxCell"
    /\ ~pOut.ok /\ pOut.err = "ValueError"

RECURSIVE PathsOf(_)
\* the positions of the nodes of an element, as sequences of child indexes
PathsOf(e) ==
    {<<>>} \cup UNION {{<<k>> \o p : p \in PathsOf(e.children[k])} :
                            k \in 1..Len(e.children)}

RECURSIVE NodeAt(_, _)
NodeAt(e, p) == IF p = <<>> THEN e ELSE NodeAt(e.children[Head(p)], Tail(p))

\* p comes before q in document order
Before(p, q) ==
    /\ p # q
    /\ \E n \in 0..Len(p) :
        /\ n <= Len(q)
        /\ SubSeq(p, 1, n) = SubSeq(q, 1, n)
        /\ \/ n = Len(p)
           \/ n < Len(q) /\ p[n + 1] < q[n + 1]

Descendants(e, tag) == {p \in PathsOf(e) \ {<<>>} : NodeAt(e, p).tag = tag}

\* the position of the first descendant with this tag, if there is one
FirstDescendant(e, tag) ==
    {p \in Descendants(e, tag) : \A q \in Descendants(e, tag) : ~Before(q, p)}

OwnAttribs(e, names) ==
    [k \in names |-> IF k \in DOMAIN e.attrib THEN Str(e.attrib[k]) ELSE None]

AsSecondary(own, sec) ==
    [k \in DOMAIN own \cup DOMAIN sec |->
        IF k \in DOMAIN own /\ own[k] # None THEN own[k]
        ELSE IF k \in DOMAIN sec THEN sec[k]
        ELSE None]

ObjectNames == {"label", "id", "tags"}
CellNames == {"value", "style", "id", "parent", "vertex"}
GeoNames == {"x", "y", "width", "height"}

ExpectedCell(c) ==
    LET F == FirstDescendant(c, "mxGeometry")
    IN  IF F = {}
        THEN OwnAttribs(c, CellNames)
        ELSE AsSecondary(OwnAttribs(c, CellNames),
                         OwnAttribs(NodeAt(c, CHOOSE p \in F : TRUE), GeoNames))

ExpectedOuter(o) ==
    LET F == FirstDescendant(o, "mxCell")
    IN  IF F = {}
        THEN OwnAttribs(o, ObjectNames)
        ELSE AsSecondary(OwnAttribs(o, ObjectNames),
                         ExpectedCell(NodeAt(o, CHOOSE p \in F : TRUE)))

\* C10: parse_mxcell merges the first mxGeometry descendant of the cell in
\* document order, at any depth; parse_object and parse_userobject merge the
\* first mxCell descendant; later ones are ignored, and with no such
\* descendant the result is the element's own extracted attributes.
C10_FirstDescendant ==
    /\ (pCall = "parse_mxcell" /\ pElem.tag = "mxCell") =>
            pOut.ok /\ pOut.val = ExpectedCell(pElem)
    /\ (pCall = "parse_object" /\ pElem.tag = "object") =>
            pOut.ok /\ pOut.val = ExpectedOuter(pElem)
    /\ (pCall = "parse_userobject" /\ pElem.tag = "UserObject") =>
            pOut.ok /\ pOut.val = ExpectedOuter(pElem)

C10_Witness ==
    /\ pCall = "parse_mxcell"
    /\ pElem.tag = "mxCell"
    /\ Len(pElem.children) = 2
    /\ pElem.children[1].tag = "mxPoint"
    /\ Len(pElem.children[1].children) = 1
    /\ pElem.children[1].children[1].tag = "mxGeometry"
    /\ pElem.children[2].tag = "mxGeometry"
    /\ pOut.ok
    /\ pOut.val["x"] = Str(pElem.children[1].children[1].attrib["x"])
    /\ pOut.val["x"] # Str(pElem.children[2].attrib["x"])
    /\ pOut.val["id"] = Str(pElem.attrib["id"])

----------------------------------------------------------------------------
(* Properties of parse_diagram *)

\* the document is one diagram holding one graph model holding one root
SinglePath(d) ==
    /\ Len(d.children) = 1
    /\ d.children[1].tag = "diagram"
    /\ Len(d.children[1].children) = 1
    /\ d.children[1].children[1].tag = "mxGraphModel"
    /\ Len(d.children[1].children[1].children) = 1
    /\ d.children[1].children[1].children[1].tag = "root"

\* the direct children of that root container
RootChildren(d) == d.children[1].children[1].children[1].children

\* an object holding one mxCell holding one mxGeometry
IsNestedObject(e) ==
    /\ e.tag = "object"
    /\ Len(e.children) = 1
    /\ e.children[1].tag = "mxCell"
    /\ Len(e.children[1].children) = 1
    /\ e.children[1].children[1].tag = "mxGeometry"
    /\ e.children[1].children[1].children = <<>>

LevelsOf(e) ==
    << [el |-> e, names |-> ObjectNames],
       [el |-> e.children[1], names |-> CellNames],
       [el |-> e.children[1].children[1], names |-> GeoNames] >>

\* the levels that request field f and carry it
Suppliers(e, f) ==
    {n \in 1..3 : f \in LevelsOf(e)[n].names
                    /\ f \in DOMAIN LevelsOf(e)[n].el.attrib}

Supplied(e, f) ==
    IF Suppliers(e, f) = {}
    THEN None
    ELSE LET n == CHOOSE n \in Suppliers(e, f) : \A m \in Suppliers(e, f) : n <= m
         IN  Str(LevelsOf(e)[n].el.attrib[f])

\* C2: the record of a root child that is an object holding one mxCell
\* holding one mxGeometry takes each field from the outermost level that
\* requests and carries it; a field no level supplies is None and not the
\* empty string, a value carried as the empty string stays the empty string;
\* the walk does not fail at such a child.
C2_NestedRecord ==
    SinglePath(doc) =>
        /\ \A j \in 1..Len(data) :
            IsNestedObject(RootChildren(doc)[j]) =>
                /\ DOMAIN data[j] = Fields
                /\ \A f \in Fields :
                    /\ data[j][f] = Supplied(RootChildren(doc)[j], f)
                    /\ Suppliers(RootChildren(doc)[j], f) = {} =>
                            data[j][f] = None /\ data[j][f] # Str("")
        /\ (pc = "raised" /\ idx < Len(RootChildren(doc))) =>
                ~IsNestedObject(RootChildren(doc)[idx + 1])
        /\ pc = "returned" => result = data

C2_Witness ==
    /\ pc = "returned"
    /\ SinglePath(doc)
    /\ Len(RootChildren(doc)) = 1
    /\ IsNestedObject(RootChildren(doc)[1])
    /\ LET o == RootChildren(doc)[1]
           c == o.children[1]
           g == c.children[1]
       IN  /\ DOMAIN o.attrib = {"x"}
           /\ DOMAIN c.attrib = {"id", "label", "x"}
           /\ c.attrib["id"] = ""
           /\ DOMAIN g.attrib = {"id", "label"}
    /\ Len(result) = 1
    /\ result[1]["id"] = Str("")
    /\ result[1]["label"] = None
    /\ result[1]["x"] = None

Unhandled(d) ==
    {j \in 1..Len(RootChildren(d)) : RootChildren(d)[j].tag \notin parser_tags}

FirstUnhandled(d) == CHOOSE j \in Unhandled(d) : \A m \in Unhandled(d) : j <= m

\* C3: when a direct child of the root has a tag without a parser, the walk
\* ends with the unhandled-kind error (KeyError) at the first such child: it
\* is not skipped nor parsed, no child after it is reached, and no list is
\* returned.
C3_UnhandledKindFails ==
    (SinglePath(doc) /\ Unhandled(doc) # {}) =>
        /\ pc # "returned"
        /\ result = <<>>
        /\ idx < FirstUnhandled(doc)
        /\ Len(data) < FirstUnhandled(doc)
        /\ pc = "raised" => err = "KeyError" /\ idx = FirstUnhandled(doc) - 1
        /\ (pc = "loop" /\ idx = FirstUnhandled(doc) - 1) =>
                ENABLED UnhandledKind /\ ~ENABLED ParseShape /\ ~ENABLED Return

C3_Witness ==
    /\ pc = "raised"
    /\ err = "KeyError"
    /\ SinglePath(doc)
    /\ Len(RootChildren(doc)) = 3
    /\ RootChildren(doc)[1].tag = "object"
    /\ RootChildren(doc)[2].tag = "mxPoint"
    /\ RootChildren(doc)[3].tag = "mxCell"
    /\ idx = 1
    /\ Len(data) = 1
    /\ result = <<>>

\* C4: over a document whose root children all have a parser, the list holds
\* after k children exactly the records of the first k direct children of the
\* root, in document order; the returned list has one record per direct child.
C4_DocumentOrder ==
    (SinglePath(doc) /\ Unhandled(doc) = {}) =>
        /\ pc # "raised"
        /\ pc \in {"loop", "returned"} =>
            /\ child_shapes = RootChildren(doc)
            /\ Len(data) = idx
            /\ \A j \in 1..Len(data) :
                /\ data[j] = DrawioElement(parser(RootChildren(doc)[j]).val).val
                /\ "id" \in DOMAIN RootChildren(doc)[j].attrib =>
                        data[j]["id"] = Str(RootChildren(doc)[j].attrib["id"])
        /\ pc = "returned" =>
            /\ result = data
            /\ Len(result) = Len(RootChildren(doc))

C4_Witness ==
    /\ pc = "returned"
    /\ SinglePath(doc)
    /\ RootChildren(doc) = <<ShapeUser, ShapeBox, ShapeCell>>
    /\ Len(result) = 3
    /\ result[1]["id"] = Str("4")
    /\ result[2]["id"] = Str("1")
    /\ result[3]["id"] = Str("2")

\* the document has no diagram section, or its first diagram section holds no
\* mxGraphModel that holds a root container
PathMissing(d) ==
    LET D == {k \in 1..Len(d.children) : d.children[k].tag = "diagram"}
        first == d.children[CHOOSE k \in D : \A m \in D : k <= m]
    IN  \/ D = {}
        \/ ~\E m \in 1..Len(first.children) :
                /\ first.children[m].tag = "mxGraphModel"
                /\ \E r \in 1..Len(first.children[m].children) :
                        first.children[m].children[r].tag = "root"

\* C7 as stated: on a document without the structural path parse_diagram
\* fails with an error and returns no list.
C7_MissingPathFails ==
    (PathMissing(doc) /\ pc \notin {"start", "loop"}) =>
        pc = "raised" /\ err # ""

\* C7 as amended: on a document without the structural path parse_diagram
\* finds no shape, raises nothing and returns the empty list.
C7_MissingPathReturnsEmpty ==
    PathMissing(doc) =>
        /\ pc # "raised" /\ err = ""
        /\ pc \in {"loop", "returned"} => child_shapes = <<>> /\ data = <<>>
        /\ pc = "returned" => result = <<>>
        /\ pc = "loop" => ENABLED Return

C7_Witness ==
    /\ PathMissing(doc)
    /\ pc = "returned"
    /\ result = <<>>
    /\ Len(doc.children) = 2
    /\ doc.children[1] = Diagram(<<>>)
    /\ doc.children[2].tag = "diagram"
    /\ ~PathMissing(Mxfile(<<doc.children[2]>>))

\* C9 as stated: every record of a returned list has an id that is a string,
\* not None.
C9_IdPresent ==
    pc = "returned" => \A j \in 1..Len(result) : result[j]["id"] # None

====
